---------------------------- MODULE Spec2Model ----------------------------
(***************************************************************************)
(* Model of the browser-automation-helper:                                 *)
(*   - ElementAnalyzer  (src/unnamed/part_002): the DOM analysis engine    *)
(*   - ElementInspector (src/extension/src/content/ElementInspector.js):   *)
(*     the inspection session that drives the analyzer from DOM events     *)
(*   - server.js (src/unnamed/part_000): the element store and its clients *)
(*   - background.js (src/extension/src/background/background.js): the     *)
(*     extension's connection to the server and its reconnect loop.        *)
(*                                                                         *)
(* A document is a sequence of element records; element n is the n-th      *)
(* record, node 0 is document.body.  The children of a node are the        *)
(* elements naming it as parent, in index order.                           *)
(***************************************************************************)
EXTENDS Integers, Sequences, FiniteSets, Bags, TLC

VARIABLES
  dom,                \* the live document (elements below document.body)
  relationshipCache,  \* ElementAnalyzer.relationshipCache (WeakMap)
  last,               \* the most recent analyzer call and what it returned
  inspector,          \* ElementInspector fields and its document listeners
  outbox,             \* chrome.runtime messages handed to the background
  db,                 \* server.js: the database handle and the elements table
  clock,              \* the second CURRENT_TIMESTAMP reads
  sockets,            \* server.js: the WebSocket of each client
  handlers,           \* message handlers suspended at an await
  received,           \* elementSelected payloads that reached the server
  background          \* background.js: its globals, sockets and timers

serverVars == <<db, clock, sockets, handlers, received>>

browserVars == <<dom, relationshipCache, inspector, outbox>>

vars == <<dom, relationshipCache, last, inspector, outbox, serverVars, background>>

----------------------------------------------------------------------------
(* Bounds of the model.                                                    *)

MaxGenericNodes == 3   \* elements of an enumerated generic page
MaxNesting == 2        \* ancestors placed between body and a scenario root
MaxCacheEntries == 1   \* relationship-cache entries a run fills
MaxOutbox == 1         \* elementSelected messages in flight
NumClients == 2        \* WebSocket clients of the server
NumPayloads == 2       \* elementSelected payloads sent to the server
MaxClock == 1          \* seconds that pass while the server runs
MaxLimit == 2          \* largest ?limit= of a history request
NumItems == 5          \* <li> children of the list scenario
NumChildren == 3       \* children of the parent of a family page
NumCells == 3          \* <td> cells of the table-row scenario

----------------------------------------------------------------------------
(* DOM primitives.                                                         *)

Body == 0
NoNode == -1           \* null (no parentElement, nothing found)

\* Tag names of the model, in the order Array.prototype.sort() puts them.
SortedTags ==
  <<"body", "div", "form", "input", "label", "li", "span", "table",
    "tbody", "td", "tr", "ul">>

TagRank(t) == CHOOSE i \in 1..Len(SortedTags) : SortedTags[i] = t

\* The display a user-agent style sheet computes for a tag.
DefaultDisplay(t) ==
  CASE t = "span"  -> "inline"
    [] t = "label" -> "inline"
    [] t = "input" -> "inline-block"
    [] t = "li"    -> "list-item"
    [] t = "table" -> "table"
    [] t = "tbody" -> "table-row-group"
    [] t = "tr"    -> "table-row"
    [] t = "td"    -> "table-cell"
    [] OTHER       -> "block"

\* An element record.  className is the sequence of its class tokens.
Element(parent, tag, className) ==
  [parent |-> parent, tag |-> tag, className |-> className, id |-> "",
   htmlFor |-> "", role |-> "", display |-> DefaultDisplay(tag),
   owner |-> "page"]

Elements(d) == 1..Len(d)
PageElements(d) == {n \in Elements(d) : d[n].owner = "page"}

TagName(d, n) == IF n = Body THEN "body" ELSE d[n].tag
ClassName(d, n) == IF n = Body THEN <<>> ELSE d[n].className
ClassList(d, n) == {ClassName(d, n)[i] : i \in 1..Len(ClassName(d, n))}
RoleOf(d, n) == IF n = Body THEN "" ELSE d[n].role
DisplayOf(d, n) == IF n = Body THEN "block" ELSE d[n].display

\* element.parentElement; the parent of document.body is not modelled, the
\* walks of the analyzer all stop at document.body.
ParentElement(d, n) == IF n = Body THEN NoNode ELSE d[n].parent

\* Array.from(element.children)
Children(d, p) ==
  SelectSeq([i \in 1..Len(d) |-> i], LAMBDA n : d[n].parent = p)

Range(s) == {s[i] : i \in 1..Len(s)}

RECURSIVE Flatten(_)
Flatten(ss) == IF ss = <<>> THEN <<>> ELSE Head(ss) \o Flatten(Tail(ss))

\* The descendants of a node in document order (what querySelectorAll walks).
RECURSIVE Descendants(_, _)
Descendants(d, p) ==
  LET cs == Children(d, p)
  IN  Flatten([i \in 1..Len(cs) |-> <<cs[i]>> \o Descendants(d, cs[i])])

\* Array.prototype.sort() on a sequence of tag names.
RECURSIVE InsertTag(_, _)
InsertTag(t, s) ==
  IF s = <<>> THEN <<t>>
  ELSE IF TagRank(t) <= TagRank(Head(s)) THEN <<t>> \o s
  ELSE <<Head(s)>> \o InsertTag(t, Tail(s))

RECURSIVE SortTags(_)
SortTags(s) == IF s = <<>> THEN <<>> ELSE InsertTag(Head(s), SortTags(Tail(s)))

Max(a, b) == IF a >= b THEN a ELSE b

----------------------------------------------------------------------------
(* JavaScript numbers, as far as calculateSimilarity needs them: NaN or an *)
(* exact fraction in lowest terms.  With at most three class tokens per    *)
(* element the comparisons against 0.5 and 0.8 agree with IEEE doubles.    *)

RECURSIVE Gcd(_, _)
Gcd(a, b) == IF b = 0 THEN a ELSE Gcd(b, a % b)

NaN == [nan |-> TRUE, num |-> 0, den |-> 1]

Fraction(n, m) ==
  LET g == Gcd(n, m) IN [nan |-> FALSE, num |-> n \div g, den |-> m \div g]

Number(n) == Fraction(n, 1)

\* a / b for natural a <= b; 0 / 0 is NaN.
Divide(a, b) == IF b = 0 THEN NaN ELSE Fraction(a, b)

Plus(x, y) ==
  IF x.nan \/ y.nan THEN NaN
  ELSE Fraction(x.num * y.den + y.num * x.den, x.den * y.den)

\* x / k for an integer k > 0
Over(x, k) == IF x.nan THEN NaN ELSE Fraction(x.num, x.den * k)

\* x > p / q; every comparison with NaN is false
GreaterThan(x, p, q) == ~x.nan /\ x.num * q > p * x.den

----------------------------------------------------------------------------
(* ElementAnalyzer: signatures and the similarity scorer.                  *)
(* A string the code builds by concatenation is modelled as the sequence   *)
(* of its parts, each part the tokens it is made from.                     *)

Null == <<>>           \* null where the code returns a signature or null

Part(kind, tokens) == [kind |-> kind, tokens |-> tokens]

TagsOf(d, ns) == [i \in 1..Len(ns) |-> TagName(d, ns[i])]

\* `${tag}[${className}]{${child tags joined by ','}}`: the child tags in
\* child order, the class string as written.
generateStructureSignature(d, n) ==
  <<Part("tag", <<TagName(d, n)>>),
    Part("[]", ClassName(d, n)),
    Part("{}", TagsOf(d, Children(d, n)))>>

calculateSimilarity(d, el1, el2) ==
  LET tagScore == IF TagName(d, el1) = TagName(d, el2) THEN Number(1) ELSE Number(0)
      classes1 == ClassList(d, el1)
      classes2 == ClassList(d, el2)
      commonClasses == classes1 \cap classes2
      classScore ==
        Plus(tagScore,
             Divide(Cardinality(commonClasses),
                    Max(Cardinality(classes1), Cardinality(classes2))))
      score ==
        IF generateStructureSignature(d, el1) = generateStructureSignature(d, el2)
        THEN Plus(classScore, Number(1))
        ELSE classScore
  IN  Over(score, 3)

\* The thresholds of the analyzer: > 0.8 for repeating siblings, > 0.5 for
\* relationships.
IsSimilarSibling(x) == GreaterThan(x, 4, 5)
IsRelated(x) == GreaterThan(x, 1, 2)

----------------------------------------------------------------------------
(* ElementAnalyzer: the container classifier.                              *)

containerTags ==
  {"div", "section", "article", "main", "aside", "nav", "header", "footer",
   "form", "ul", "ol", "table"}

containerRoles == {"group", "list", "grid", "tablist"}

\* Class tokens of the model that contain one of the substrings
\* container|wrapper|content|layout|grid|flex|list.
LayoutKeywordClasses == {"wrapper", "checklist"}

\* Class tokens of the model matching /^(js-|is-|has-|active|visible|hidden)/.
TransientClasses == {"active", "is-open"}

containerDisplays == {"flex", "grid", "table"}

HasSimilarChildren(d, n) ==
  LET children == Children(d, n)
      similarChildren ==
        SelectSeq(children,
                  LAMBDA child :
                    /\ TagName(d, child) = TagName(d, children[1])
                    /\ ClassName(d, child) = ClassName(d, children[1]))
  IN  Len(children) > 1 /\ Len(similarChildren) > 1

isLikelyContainer(d, n) ==
  \/ TagName(d, n) \in containerTags
  \/ RoleOf(d, n) \in containerRoles
  \/ ClassList(d, n) \cap LayoutKeywordClasses # {}
  \/ DisplayOf(d, n) \in containerDisplays
  \/ HasSimilarChildren(d, n)

getContainerSignature(d, n) ==
  LET significantClasses ==
        SelectSeq(ClassName(d, n), LAMBDA cls : cls \notin TransientClasses)
  IN  <<Part("tag", <<TagName(d, n)>>)>>
      \o (IF n # Body /\ d[n].id # "" THEN <<Part("#", <<d[n].id>>)>> ELSE <<>>)
      \o (IF Len(significantClasses) > 0
          THEN <<Part(".", significantClasses)>> ELSE <<>>)
      \o (IF RoleOf(d, n) # "" THEN <<Part("role", <<RoleOf(d, n)>>)>> ELSE <<>>)
      \o <<Part("{}", SortTags(TagsOf(d, Children(d, n))))>>

\* The ancestors of n below document.body, nearest first: the nodes every
\* `while (x && x !== document.body)` walk of the analyzer visits.
RECURSIVE AncestorsBelowBody(_, _)
AncestorsBelowBody(d, n) ==
  LET p == ParentElement(d, n)
  IN  IF p = NoNode \/ p = Body THEN <<>>
      ELSE <<p>> \o AncestorsBelowBody(d, p)

findClosestStructuralContainer(d, n) ==
  LET containers ==
        SelectSeq(AncestorsBelowBody(d, n), LAMBDA a : isLikelyContainer(d, a))
  IN  IF containers # <<>> THEN Head(containers) ELSE Body

\* The siblings of `element` under `container` scoring above 0.8.
SimilarSiblingsIn(d, container, element) ==
  SelectSeq(Children(d, container),
            LAMBDA sibling :
              /\ sibling # element
              /\ IsSimilarSibling(calculateSimilarity(d, element, sibling)))

identifyPatternGroup(d, n) ==
  LET groups ==
        SelectSeq(AncestorsBelowBody(d, n),
                  LAMBDA container :
                    /\ isLikelyContainer(d, container)
                    /\ Len(SimilarSiblingsIn(d, container, n)) > 0)
  IN  IF groups # <<>> THEN getContainerSignature(d, Head(groups)) ELSE Null

----------------------------------------------------------------------------
(* ElementAnalyzer: the structure analyzer.                                *)

\* One pass of the while loop of analyzeStructure per ancestor below body:
\* every pass overwrites siblings and similarSiblings with the counts of the
\* level it is at, and containerId with the container met at that level.
RECURSIVE StructureWalk(_, _, _, _)
StructureWalk(d, structure, current, parent) ==
  IF parent = NoNode \/ parent = Body THEN structure
  ELSE
    LET siblings == Children(d, parent)
        next ==
          [structure EXCEPT
             !.depth = @ + 1,
             !.siblings = Len(siblings),
             !.similarSiblings = Len(SimilarSiblingsIn(d, parent, current)),
             !.containerId =
               IF isLikelyContainer(d, parent)
               THEN getContainerSignature(d, parent) ELSE @]
    IN  StructureWalk(d, next, parent, ParentElement(d, parent))

\* analyzeStructure with isRepeating taken from the sibling count instead
\* of the similar-sibling count.
analyzeStructureFromSiblingCount(d, element) ==
  LET initial ==
        [depth |-> 0, siblings |-> 0, similarSiblings |-> 0,
         children |-> Len(Children(d, element)), isRepeating |-> FALSE,
         containerId |-> Null, patternGroup |-> Null]
      walked == StructureWalk(d, initial, element, ParentElement(d, element))
      isRepeating == walked.siblings > 0
  IN  [walked EXCEPT
         !.isRepeating = isRepeating,
         !.patternGroup =
           IF isRepeating THEN identifyPatternGroup(d, element) ELSE @]

analyzeStructure(d, element) ==
  LET initial ==
        [depth |-> 0, siblings |-> 0, similarSiblings |-> 0,
         children |-> Len(Children(d, element)), isRepeating |-> FALSE,
         containerId |-> Null, patternGroup |-> Null]
      walked == StructureWalk(d, initial, element, ParentElement(d, element))
      isRepeating == walked.similarSiblings > 0
  IN  [walked EXCEPT
         !.isRepeating = isRepeating,
         !.patternGroup =
           IF isRepeating THEN identifyPatternGroup(d, element) ELSE @]

----------------------------------------------------------------------------
(* ElementAnalyzer: the relationship finder.                               *)

\* container.querySelector(`label[for="${id}"]`): the first match in
\* document order among the descendants of the container, or null.
QueryLabelFor(d, container, id) ==
  LET labels ==
        SelectSeq(Descendants(d, container),
                  LAMBDA n : d[n].tag = "label" /\ d[n].htmlFor = id)
  IN  IF labels # <<>> THEN Head(labels) ELSE NoNode

\* row.cells of a <tr>: its td/th children.  (Cells sit under a <tr> in
\* every document of the model.)
Cells(d, row) ==
  SelectSeq(Children(d, row), LAMBDA c : d[c].tag \in {"td", "th"})

\* findSemanticRelationships without the `cell !== element` test.
findSemanticRelationshipsWithSelf(d, element, container) ==
  LET parent == ParentElement(d, element)
      label ==
        IF d[element].tag = "input" /\ d[element].id # ""
        THEN QueryLabelFor(d, container, d[element].id) ELSE NoNode
      cells ==
        IF d[element].tag \in {"td", "th"} /\ parent # NoNode
        THEN Cells(d, parent) ELSE <<>>
      items ==
        IF d[element].tag = "li" /\ parent # NoNode
        THEN SelectSeq(Children(d, parent), LAMBDA item : item # element)
        ELSE <<>>
  IN  (IF label # NoNode THEN <<label>> ELSE <<>>) \o cells \o items

\* What findSemanticRelationships pushes, in the order it pushes it.
findSemanticRelationships(d, element, container) ==
  LET parent == ParentElement(d, element)
      label ==
        IF d[element].tag = "input" /\ d[element].id # ""
        THEN QueryLabelFor(d, container, d[element].id) ELSE NoNode
      cells ==
        IF d[element].tag \in {"td", "th"} /\ parent # NoNode
        THEN SelectSeq(Cells(d, parent), LAMBDA cell : cell # element)
        ELSE <<>>
      items ==
        IF d[element].tag = "li" /\ parent # NoNode
        THEN SelectSeq(Children(d, parent), LAMBDA item : item # element)
        ELSE <<>>
  IN  (IF label # NoNode THEN <<label>> ELSE <<>>) \o cells \o items

\* The sequence findRelationships computes on a cache miss.
computeRelationships(d, element) ==
  LET container == findClosestStructuralContainer(d, element)
      similar ==
        SelectSeq(Children(d, container),
                  LAMBDA child :
                    /\ child # element
                    /\ IsRelated(calculateSimilarity(d, element, child)))
  IN  similar \o findSemanticRelationships(d, element, container)

NotCached == [cached |-> FALSE, value |-> <<>>]
Cached(rels) == [cached |-> TRUE, value |-> rels]

\* What a call of the analyzer came to: the value returned, whether it
\* threw instead, and the work its relationship finder did (container
\* searches, similarity computations).
Outcome(value, threw, searches, sims) ==
  [value |-> value, threw |-> threw,
   containerSearches |-> searches, similarityCalls |-> sims]

\* The calculateSimilarity calls of a cache miss: one per child of the
\* container other than the element.
SimilarityCallsFor(d, element) ==
  Len(SelectSeq(Children(d, findClosestStructuralContainer(d, element)),
                LAMBDA c : c # element))

\* findRelationships that writes the cache but never reads it.
findRelationshipsUncached(d, cache, element) ==
  LET rels == computeRelationships(d, element)
  IN  [cache |-> [cache EXCEPT ![element] = Cached(rels)],
       outcome |-> Outcome(rels, FALSE, 1, SimilarityCallsFor(d, element))]

\* findRelationships against a cache: the cache afterwards and the outcome.
findRelationships(d, cache, element) ==
  IF cache[element].cached
  THEN [cache |-> cache, outcome |-> Outcome(cache[element].value, FALSE, 0, 0)]
  ELSE
    LET rels == computeRelationships(d, element)
    IN  [cache |-> [cache EXCEPT ![element] = Cached(rels)],
         outcome |-> Outcome(rels, FALSE, 1, SimilarityCallsFor(d, element))]

----------------------------------------------------------------------------
(* ElementAnalyzer: pattern search.  Of the computed style only `display`  *)
(* is modelled: position is static, float is none, cursor is auto and      *)
(* flex-direction is row; no element has an onclick handler.               *)

NoPattern == "null"    \* null where the code returns a string or null

detectLayoutPattern(d, n) ==
  CASE d[n].display = "flex" -> "flex-row"
    [] d[n].display = "grid" -> "grid"
    [] OTHER -> NoPattern

detectInteractionPattern(d, n) ==
  CASE d[n].tag = "form"    -> "form"
    [] d[n].tag = "input"   -> "input"
    [] d[n].role = "button" -> "button"
    [] OTHER -> NoPattern

\* el1.contains(el2): el2 is el1 or one of its descendants
Contains(d, el1, el2) == el1 = el2 \/ el2 \in Range(Descendants(d, el1))

determineRelationship(d, el1, el2) ==
  CASE ParentElement(d, el1) = ParentElement(d, el2) -> "sibling"
    [] Contains(d, el1, el2) -> "parent"
    [] Contains(d, el2, el1) -> "child"
    [] OTHER -> "related"

findSimilarStructures(d, element, signature) ==
  LET container == findClosestStructuralContainer(d, element)
  IN  SelectSeq(Descendants(d, container),
                LAMBDA candidate :
                  /\ d[candidate].tag = d[element].tag
                  /\ candidate # element
                  /\ generateStructureSignature(d, candidate) = signature)

\* The names of the attributes an element carries.
AttributeNames(d, n) ==
  (IF d[n].id # "" THEN {"id"} ELSE {})
    \cup (IF d[n].className # <<>> THEN {"class"} ELSE {})
    \cup (IF d[n].htmlFor # "" THEN {"for"} ELSE {})
    \cup (IF d[n].role # "" THEN {"role"} ELSE {})
    \cup (IF d[n].owner = "inspector" THEN {"style"} ELSE {})

getContextElements(d, element) ==
  Children(d, findClosestStructuralContainer(d, element))

findCommonAttributes(d, elements) ==
  IF Len(elements) = 0 THEN {}
  ELSE {a \in AttributeNames(d, elements[1]) :
          \A i \in 1..Len(elements) : a \in AttributeNames(d, elements[i])}

findPatterns(d, element) ==
  LET similar ==
        findSimilarStructures(d, element, generateStructureSignature(d, element))
  IN  [repeatingStructures |->
         [i \in 1..Len(similar) |->
            [element |-> similar[i],
             similarity |-> calculateSimilarity(d, element, similar[i]),
             relationship |-> determineRelationship(d, element, similar[i])]],
       commonAttributes |-> findCommonAttributes(d, getContextElements(d, element)),
       layoutPattern |-> detectLayoutPattern(d, element),
       interactionPattern |-> detectInteractionPattern(d, element)]

----------------------------------------------------------------------------
(* ElementAnalyzer: selectors.  A selector is the sequence of its segments *)
(* from the outermost one to the element's own.  Above document.body the   *)
(* walk meets <html>, whose only element children are <head> and <body>.   *)

Segment(kind, tokens, index) == [kind |-> kind, tokens |-> tokens, index |-> index]

RECURSIVE CssWalk(_, _)
CssWalk(d, current) ==
  IF current = NoNode THEN <<>>
  ELSE IF current = Body
  THEN <<Segment("tag", <<"html">>, 0), Segment("tag", <<"body">>, 0)>>
  ELSE IF d[current].id # "" THEN <<Segment("#", <<d[current].id>>, 0)>>
  ELSE CssWalk(d, ParentElement(d, current))
         \o <<Segment("tag", <<d[current].tag>> \o d[current].className, 0)>>

\* ElementAnalyzer.generateCssSelector: the segments joined by ' > '
generateCssSelector(d, element) == CssWalk(d, element)

\* The position among all the preceding siblings, whatever their tag.
PositionAmongAllSiblings(d, n) ==
  1 + Cardinality({m \in Elements(d) :
                     /\ m < n
                     /\ d[m].parent = d[n].parent
                     /\ d[n].parent # NoNode})

\* 1 + the number of preceding element siblings with the same tag name
PositionAmongTag(d, n) ==
  1 + Cardinality({m \in Elements(d) :
                     /\ m < n
                     /\ d[m].parent = d[n].parent
                     /\ d[n].parent # NoNode
                     /\ d[m].tag = d[n].tag})

RECURSIVE XPathWalk(_, _)
XPathWalk(d, current) ==
  IF current = NoNode THEN <<>>
  ELSE IF current = Body
  THEN <<Segment("tag[]", <<"html">>, 1), Segment("tag[]", <<"body">>, 1)>>
  ELSE IF d[current].id # "" THEN <<Segment("//*[@id]", <<d[current].id>>, 0)>>
  ELSE XPathWalk(d, ParentElement(d, current))
         \o <<Segment("tag[]", <<d[current].tag>>, PositionAmongTag(d, current))>>

\* ElementAnalyzer.generateXPath: the segments joined by '/'
generateXPath(d, element) == XPathWalk(d, element)

generateSelectors(d, element) ==
  [css |-> generateCssSelector(d, element),
   xpath |-> generateXPath(d, element)]

----------------------------------------------------------------------------
(* ElementInspector: the selectors of getElementInfo.  Its walks follow    *)
(* parentNode, so they pass document.body and <html> and end at the        *)
(* document node.                                                          *)

Html == -2             \* document.documentElement
Document == -3         \* the document node (nodeType DOCUMENT_NODE)

ParentNode(d, n) ==
  IF n = Html THEN Document ELSE IF n = Body THEN Html ELSE d[n].parent

\* The element children of a node.  <head> precedes <body> under <html>; it
\* shares its tag with nothing and is left out.
ChildElements(d, n) ==
  IF n = Document THEN <<Html>> ELSE IF n = Html THEN <<Body>> ELSE Children(d, n)

NodeName(d, n) == IF n = Html THEN "html" ELSE TagName(d, n)
NodeId(d, n) == IF n \in {Html, Body} THEN "" ELSE d[n].id
NodeClassName(d, n) == IF n = Html THEN <<>> ELSE ClassName(d, n)
NodeRole(d, n) == IF n = Html THEN "" ELSE RoleOf(d, n)

\* 1 + the preceding siblings that are elements with the same tagName
PositionAmongSiblings(d, n) ==
  LET siblings == ChildElements(d, ParentNode(d, n))
  IN  1 + Cardinality({i \in 1..Len(siblings) :
                         /\ siblings[i] < n
                         /\ NodeName(d, siblings[i]) = NodeName(d, n)})

RECURSIVE InspectorXPathWalk(_, _)
InspectorXPathWalk(d, current) ==
  IF current \in {Document, NoNode} THEN <<>>
  ELSE InspectorXPathWalk(d, ParentNode(d, current))
         \o <<Segment("tag[]", <<NodeName(d, current)>>,
                      PositionAmongSiblings(d, current))>>

\* ElementInspector.generateXPath: '/' and the segments joined by '/'
InspectorGenerateXPath(d, element) == InspectorXPathWalk(d, element)

\* One compound selector of the inspector's CSS path: tag, then #id or
\* .classes, then [role="..."] (of the identifying attributes name, type,
\* role, data-testid and data-id, the elements of the model carry role).
Compound(tag, id, className, role) ==
  [tag |-> tag, id |-> id, className |-> className, role |-> role]

\* element.matches(compound)
MatchesCompound(d, n, c) ==
  /\ c.tag \in {"", NodeName(d, n)}
  /\ c.id \in {"", NodeId(d, n)}
  /\ Range(c.className) \subseteq Range(NodeClassName(d, n))
  /\ c.role \in {"", NodeRole(d, n)}

\* element.matches(paths.join(' > '))
RECURSIVE MatchesPath(_, _, _)
MatchesPath(d, n, paths) ==
  /\ n \notin {Document, NoNode}
  /\ MatchesCompound(d, n, paths[Len(paths)])
  /\ Len(paths) > 1 =>
       MatchesPath(d, ParentNode(d, n), SubSeq(paths, 1, Len(paths) - 1))

\* document.querySelectorAll(paths.join(' > '))
QuerySelectorAll(d, paths) ==
  {n \in Elements(d) \cup {Body, Html} : MatchesPath(d, n, paths)}

RECURSIVE InspectorCssWalk(_, _, _)
InspectorCssWalk(d, current, paths) ==
  IF current \in {Document, NoNode} THEN paths
  ELSE IF NodeId(d, current) # ""
  THEN <<Compound(NodeName(d, current), NodeId(d, current), <<>>, "")>> \o paths
  ELSE LET longer == <<Compound(NodeName(d, current), "",
                                NodeClassName(d, current),
                                NodeRole(d, current))>> \o paths
       IN  IF Cardinality(QuerySelectorAll(d, longer)) = 1 THEN longer
           ELSE InspectorCssWalk(d, ParentNode(d, current), longer)

\* ElementInspector.generateCssSelector: the compounds joined by ' > '
InspectorGenerateCssSelector(d, element) == InspectorCssWalk(d, element, <<>>)

\* getElementInfo (text, attributes and the implicit role are left out)
getElementInfo(d, element) ==
  [tagName |-> d[element].tag, id |-> d[element].id,
   className |-> d[element].className,
   xpath |-> InspectorGenerateXPath(d, element),
   cssSelector |-> InspectorGenerateCssSelector(d, element)]

----------------------------------------------------------------------------
(* Resolving an XPath against the document, as document.evaluate does with *)
(* the document node as context: the nodes the expression selects.         *)

\* One location step applied to a set of context nodes.
XPathStep(d, nodes, seg) ==
  IF seg.kind = "//*[@id]"
  THEN {n \in Elements(d) : d[n].id = seg.tokens[1]}
  ELSE UNION {LET named == SelectSeq(ChildElements(d, c),
                                     LAMBDA m : NodeName(d, m) = seg.tokens[1])
              IN  IF seg.index <= Len(named) THEN {named[seg.index]} ELSE {}
              : c \in nodes}

RECURSIVE XPathFrom(_, _, _)
XPathFrom(d, nodes, steps) ==
  IF steps = <<>> THEN nodes
  ELSE XPathFrom(d, XPathStep(d, nodes, Head(steps)), Tail(steps))

ResolveXPath(d, xpath) == XPathFrom(d, {Document}, xpath)

----------------------------------------------------------------------------
(* ElementAnalyzer: the facade.                                            *)

\* What a caller can pass to analyzeElement: an HTMLElement of the page, or
\* something else.
Input(kind, node) == [kind |-> kind, node |-> node]
ElementInput(n) == Input("HTMLElement", n)

\* null and undefined are falsy; a text node, an SVG element, a plain object
\* and an element of another frame's realm are truthy but fail
\* `instanceof HTMLElement`.
InvalidInputs ==
  {Input(k, NoNode) :
     k \in {"null", "undefined", "Text", "SVGElement", "Object", "ForeignElement"}}

IsFalsy(x) == x.kind \in {"null", "undefined"}
InstanceOfHTMLElement(x) == x.kind = "HTMLElement"

EmptyObject == [k \in {} |-> k]

EmptyReport ==
  [structure |-> EmptyObject,
   patterns |-> [repeatingStructures |-> <<>>],
   relationships |-> <<>>,
   selectors |-> EmptyObject]

\* The sub-analysis that raises a fault during a call, if any.
Faults == {"none", "structure", "patterns", "relationships", "selectors"}

\* analyzeElement answering an invalid input with null.
analyzeElementNullOnInvalid(d, cache, x, fault) ==
  IF IsFalsy(x) \/ ~InstanceOfHTMLElement(x)
  THEN [cache |-> cache, outcome |-> Outcome(Null, FALSE, 0, 0)]
  ELSE IF fault \in {"structure", "patterns", "relationships"}
  THEN [cache |-> cache, outcome |-> Outcome(EmptyReport, FALSE, 0, 0)]
  ELSE
    LET found == findRelationships(d, cache, x.node)
    IN  [cache |-> found.cache,
         outcome |->
           [found.outcome EXCEPT
              !.value =
                IF fault = "selectors" THEN EmptyReport
                ELSE [structure |-> analyzeStructure(d, x.node),
                      patterns |-> findPatterns(d, x.node),
                      relationships |-> @,
                      selectors |-> generateSelectors(d, x.node)]]]

\* analyzeElement with generateSelectors outside the try block: its fault
\* reaches the caller.
analyzeElementSelectorsUnguarded(d, cache, x, fault) ==
  IF IsFalsy(x) \/ ~InstanceOfHTMLElement(x)
  THEN [cache |-> cache, outcome |-> Outcome(EmptyReport, FALSE, 0, 0)]
  ELSE IF fault \in {"structure", "patterns", "relationships"}
  THEN [cache |-> cache, outcome |-> Outcome(EmptyReport, FALSE, 0, 0)]
  ELSE
    LET found == findRelationships(d, cache, x.node)
    IN  [cache |-> found.cache,
         outcome |->
           [found.outcome EXCEPT
              !.threw = (fault = "selectors"),
              !.value =
                IF fault = "selectors" THEN Null
                ELSE [structure |-> analyzeStructure(d, x.node),
                      patterns |-> findPatterns(d, x.node),
                      relationships |-> @,
                      selectors |-> generateSelectors(d, x.node)]]]

\* analyzeElement: the cache afterwards and the outcome (the report).  The
\* four sub-analyses run in order inside one try block; a fault in one of
\* them abandons the report, but what an earlier one wrote to the cache
\* stays.
analyzeElement(d, cache, x, fault) ==
  IF IsFalsy(x) \/ ~InstanceOfHTMLElement(x)
  THEN [cache |-> cache, outcome |-> Outcome(EmptyReport, FALSE, 0, 0)]
  ELSE IF fault \in {"structure", "patterns", "relationships"}
  THEN [cache |-> cache, outcome |-> Outcome(EmptyReport, FALSE, 0, 0)]
  ELSE
    LET found == findRelationships(d, cache, x.node)
    IN  [cache |-> found.cache,
         outcome |->
           [found.outcome EXCEPT
              !.value =
                IF fault = "selectors" THEN EmptyReport
                ELSE [structure |-> analyzeStructure(d, x.node),
                      patterns |-> findPatterns(d, x.node),
                      relationships |-> @,
                      selectors |-> generateSelectors(d, x.node)]]]

----------------------------------------------------------------------------
(* The documents the model runs on.                                        *)

NoWrapper == Element(NoNode, "", <<>>)

\* Wrappers that exercise each condition of isLikelyContainer, and one
\* (a plain span) that meets none.
WrapperKinds ==
  {Element(NoNode, "div", <<>>),
   Element(NoNode, "span", <<>>),
   Element(NoNode, "span", <<"wrapper">>),
   [Element(NoNode, "span", <<"active">>) EXCEPT !.role = "group"],
   [Element(NoNode, "span", <<>>) EXCEPT !.display = "flex"]}

GenericTags == {"div", "span"}
GenericClassNames == {<<>>, <<"item">>}
WideClassNames == {<<>>, <<"a">>, <<"b">>, <<"a", "b">>, <<"b", "a">>}

\* Every tree of n elements (a parent precedes its children), every tag
\* and class name of the generic sets.
GenericPagesOf(n) ==
  {[i \in 1..n |-> Element(ps[i], ts[i], cs[i])] :
     ps \in {f \in [1..n -> 0..(n - 1)] : \A i \in 1..n : f[i] < i},
     ts \in [1..n -> GenericTags],
     cs \in [1..n -> GenericClassNames]}

GenericPages == UNION {GenericPagesOf(n) : n \in 1..MaxGenericNodes}

\* Two siblings under body with any tags and any class names.
PairPages ==
  {<<Element(Body, t1, c1), Element(Body, t2, c2)>> :
     t1 \in GenericTags, t2 \in GenericTags,
     c1 \in WideClassNames, c2 \in WideClassNames}

\* wrappers nested under body, then <ul> with NumItems <li class="item">.
ListPage(wrappers) ==
  LET k == Len(wrappers)
  IN  [i \in 1..k |-> Element(i - 1, wrappers[i], <<>>)]
        \o <<Element(k, "ul", <<>>)>>
        \o [j \in 1..NumItems |-> Element(k + 1, "li", <<"item">>)]

ListPages ==
  {ListPage(w) : w \in UNION {[1..k -> GenericTags] : k \in 0..MaxNesting}}

ListOf(d) == CHOOSE n \in Elements(d) : d[n].tag = "ul"
ItemsOf(d) == Children(d, ListOf(d))

\* doc with `leaf` added under `root`, inside `wrap` unless wrap is NoWrapper
AddField(doc, root, wrap, leaf) ==
  IF wrap = NoWrapper THEN Append(doc, [leaf EXCEPT !.parent = root])
  ELSE doc \o <<[wrap EXCEPT !.parent = root],
                [leaf EXCEPT !.parent = Len(doc) + 1]>>

LabelForX == [Element(NoNode, "label", <<>>) EXCEPT !.htmlFor = "x"]
InputX == [Element(NoNode, "input", <<>>) EXCEPT !.id = "x"]

\* <label for="x"> and <input id="x">, each bare or inside a wrapper, in
\* either order, directly under body or inside a <form>.
FormPage(inForm, labelWrap, inputWrap, labelFirst) ==
  LET base == IF inForm THEN <<Element(Body, "form", <<>>)>> ELSE <<>>
      root == Len(base)
  IN  IF labelFirst
      THEN AddField(AddField(base, root, labelWrap, LabelForX), root, inputWrap, InputX)
      ELSE AddField(AddField(base, root, inputWrap, InputX), root, labelWrap, LabelForX)

FormPages ==
  {FormPage(f, lw, iw, lf) :
     f \in BOOLEAN, lw \in {NoWrapper, Element(NoNode, "span", <<>>)},
     iw \in WrapperKinds \cup {NoWrapper}, lf \in BOOLEAN}

InputOf(d) == CHOOSE n \in Elements(d) : d[n].tag = "input"
LabelOf(d) == CHOOSE n \in Elements(d) : d[n].tag = "label"

\* <table> (under body or a <div>), with or without <tbody>, one <tr> of
\* NumCells <td> whose class names are given.
TablePage(inDiv, withTbody, cellClasses) ==
  LET outer == IF inDiv THEN <<Element(Body, "div", <<>>)>> ELSE <<>>
      table == outer \o <<Element(Len(outer), "table", <<>>)>>
      body == IF withTbody
              THEN table \o <<Element(Len(table), "tbody", <<>>)>> ELSE table
      row == body \o <<Element(Len(body), "tr", <<>>)>>
  IN  row \o [j \in 1..NumCells |-> Element(Len(row), "td", cellClasses[j])]

CellClassNames == {<<>>, <<"cell">>}

TablePages ==
  {TablePage(o, b, cs) :
     o \in BOOLEAN, b \in BOOLEAN, cs \in [1..NumCells -> CellClassNames]}

RowOf(d) == CHOOSE n \in Elements(d) : d[n].tag = "tr"

\* Every tree of n classless elements in which some elements carry an id,
\* no two the same one.
IdNames == {"x", "y"}

IdPagesOf(n) ==
  {[i \in 1..n |-> [Element(ps[i], ts[i], <<>>) EXCEPT !.id = ids[i]]] :
     ps \in {f \in [1..n -> 0..(n - 1)] : \A i \in 1..n : f[i] < i},
     ts \in [1..n -> GenericTags],
     ids \in {f \in [1..n -> IdNames \cup {""}] :
               \A i, j \in 1..n : (i # j /\ f[i] # "") => f[i] # f[j]}}

IdPages == UNION {IdPagesOf(n) : n \in 1..MaxGenericNodes}

\* One parent under body with NumChildren children of any generic tag and
\* class name.
FamilyPages ==
  {<<Element(Body, p, <<>>)>> \o [i \in 1..NumChildren |-> Element(1, ts[i], cs[i])] :
     p \in GenericTags,
     ts \in [1..NumChildren -> GenericTags],
     cs \in [1..NumChildren -> GenericClassNames]}

\* Two parents of one tag and class name under body, each with two classless
\* children of any generic tag.
MirrorPages ==
  {<<Element(Body, p, c), Element(1, ts[1], <<>>), Element(1, ts[2], <<>>),
     Element(Body, p, c), Element(4, ts[3], <<>>), Element(4, ts[4], <<>>)>> :
     p \in GenericTags,
     ts \in [1..4 -> GenericTags],
     c \in GenericClassNames}

Pages ==
  GenericPages \cup PairPages \cup ListPages \cup FormPages \cup TablePages
    \cup IdPages \cup FamilyPages \cup MirrorPages

\* The two elements the ElementInspector constructor appends to
\* document.body: the highlight overlay and the tooltip.
InspectorNodes ==
  <<[Element(Body, "div", <<"element-inspector-highlight", "primary">>)
       EXCEPT !.display = "none", !.owner = "inspector"],
    [Element(Body, "div", <<"element-inspector-tooltip">>)
       EXCEPT !.display = "none", !.owner = "inspector"]>>

----------------------------------------------------------------------------
(* server.js: the elements table, the WebSocket clients and the history    *)
(* endpoint.  A payload stands for the whole elementSelected data object.  *)

Clients == 1..NumClients
Payloads == 1..NumPayloads

\* getRecentElements(limit = 10), parseInt(req.query.limit) || 10
DefaultLimit == 10

Min(a, b) == IF a <= b THEN a ELSE b

\* A row of the elements table: the AUTOINCREMENT id, the stored data and
\* the DEFAULT CURRENT_TIMESTAMP of the insert.
Row(id, data, timestamp) == [id |-> id, data |-> data, timestamp |-> timestamp]

\* The orders ORDER BY timestamp DESC permits: SQL leaves the order of rows
\* with equal timestamps open.
Orderings(rows) ==
  {perm \in [1..Len(rows) -> 1..Len(rows)] :
     /\ \A i, j \in 1..Len(rows) : i # j => perm[i] # perm[j]
     /\ \A i, j \in 1..Len(rows) :
          i < j => rows[perm[i]].timestamp >= rows[perm[j]].timestamp}

\* getRecentElements: the results db.all can give.  While `db` is undefined
\* (open() pending or failed) db.all throws and the catch returns [].
getRecentElements(database, limit) ==
  IF database.state # "open" THEN {<<>>}
  ELSE {[i \in 1..Min(limit, Len(database.rows)) |-> database.rows[perm[i]]] :
          perm \in Orderings(database.rows)}

\* saveElement: the table after the INSERT ran at second `now`.  While `db`
\* is undefined db.run throws, the catch returns null and nothing is stored.
saveElement(database, elementData, now) ==
  IF database.state # "open" THEN database
  ELSE [database EXCEPT
          !.rows = Append(@, Row(Len(@) + 1, elementData, now))]

Message(type, data, cause) == [type |-> type, data |-> data, cause |-> cause]

\* wss.clients.forEach: send to every client whose readyState is OPEN
Broadcast(socks, message) ==
  [c \in Clients |->
     IF socks[c].readyState = "OPEN"
     THEN [socks[c] EXCEPT !.inbox = Append(@, message)]
     ELSE socks[c]]

\* The server process has started: initializeDatabase() is pending,
\* server.listen() was called, no client has connected.
ServerStarted ==
  /\ db = [state |-> "opening", rows |-> <<>>]
  /\ clock = 0
  /\ sockets = [c \in Clients |->
                  [readyState |-> "CONNECTING", fetching |-> FALSE,
                   listening |-> FALSE, inbox |-> <<>>]]
  /\ handlers = {}
  /\ received = {}

----------------------------------------------------------------------------
(* background.js: the extension's connection to the automation server.     *)
(* `background` holds the globals websocket (0 is null) and                *)
(* connectionAttempts, every WebSocket object the script created, the      *)
(* pending setTimeout reconnects and the browser events not yet delivered. *)
(* A socket records who closed it and whether it opened; `sinceReset`      *)
(* counts the attempts made since establishConnection last reset the       *)
(* counter, for as long as no connection has opened since.                 *)

MAX_RETRY_ATTEMPTS == 5

MaxWebSockets == 3     \* WebSocket objects created in a run
MaxTimers == 2         \* reconnects pending at once

ValidUrl == "ws://localhost:3000"

ServerUrls == {ValidUrl, "not a url"}

\* The codes of a close event: normal closure, no status, abnormal closure.
CloseCodes == {1000, 1005, 1006}

NewWebSocket(serverUrl) ==
  [readyState |-> "CONNECTING", url |-> serverUrl, opened |-> FALSE,
   closedBy |-> "none"]

Timer(serverUrl, origin) == [serverUrl |-> serverUrl, origin |-> origin]

BackgroundStarted ==
  background =
    [websocket |-> 0, connectionAttempts |-> 0, created |-> <<>>,
     timers |-> EmptyBag, events |-> {"onStartup", "onInstalled"},
     sinceReset |-> [attempts |-> 0, opened |-> FALSE]]

\* A guard that never refuses a connection attempt.
ReachedMaxAttemptsNever(attempts) == FALSE

ReachedMaxAttempts(attempts) == attempts >= MAX_RETRY_ATTEMPTS

MayRetry(attempts) == attempts < MAX_RETRY_ATTEMPTS

\* websocket.close(): a socket that is connecting or open starts closing.
close(created, socket) ==
  IF socket # 0 /\ created[socket].readyState \in {"CONNECTING", "OPEN"}
  THEN [created EXCEPT ![socket].readyState = "CLOSING",
                       ![socket].closedBy = "extension"]
  ELSE created

\* setTimeout(() => connectWebSocket(serverUrl), RETRY_DELAY)
setTimeout(bg, serverUrl, origin) ==
  [bg EXCEPT !.timers = @ (+) SetToBag({Timer(serverUrl, origin)})]

connectWebSocket(bg, serverUrl) ==
  IF ReachedMaxAttempts(bg.connectionAttempts)
  THEN bg
  ELSE LET attempt ==
             [bg EXCEPT !.created = close(bg.created, bg.websocket),
                        !.connectionAttempts = @ + 1,
                        !.sinceReset.attempts =
                          IF bg.sinceReset.opened THEN @ ELSE @ + 1]
       IN  IF serverUrl = ValidUrl
           THEN [attempt EXCEPT
                   !.created = Append(@, NewWebSocket(serverUrl)),
                   !.websocket = Len(attempt.created) + 1]
           ELSE \* new WebSocket() throws on a malformed URL
                IF MayRetry(attempt.connectionAttempts)
                THEN setTimeout(attempt, serverUrl, 0)
                ELSE attempt

\* The runs of the model create at most MaxWebSockets sockets and keep at
\* most MaxTimers reconnects pending.
MayConnect(bg, serverUrl) ==
  \/ ReachedMaxAttempts(bg.connectionAttempts)
  \/ IF serverUrl = ValidUrl
     THEN Len(bg.created) < MaxWebSockets
     ELSE BagCardinality(bg.timers) < MaxTimers

\* chrome.runtime.onMessage: the popup asks for a connection.
EstablishConnection(serverUrl) ==
  LET reset == [background EXCEPT
                  !.connectionAttempts = 0,
                  !.sinceReset = [attempts |-> 0, opened |-> FALSE]]
  IN  /\ MayConnect(reset, serverUrl)
      /\ background' = connectWebSocket(reset, serverUrl)
      /\ UNCHANGED <<browserVars, last, serverVars>>

\* An onStartup or onInstalled listener read serverUrl from storage.
StoredUrlRead(event, serverUrl) ==
  LET delivered == [background EXCEPT !.events = @ \ {event}]
  IN  /\ event \in background.events
      /\ serverUrl # "" => MayConnect(delivered, serverUrl)
      /\ background' = IF serverUrl # ""
                       THEN connectWebSocket(delivered, serverUrl)
                       ELSE delivered
      /\ UNCHANGED <<browserVars, last, serverVars>>

OnStartup(serverUrl) == StoredUrlRead("onStartup", serverUrl)

OnInstalled(serverUrl) == StoredUrlRead("onInstalled", serverUrl)

\* websocket.onopen
OnOpen(socket) ==
  /\ background.created[socket].readyState = "CONNECTING"
  /\ background' = [background EXCEPT
                      !.created[socket].readyState = "OPEN",
                      !.created[socket].opened = TRUE,
                      !.connectionAttempts = 0,
                      !.sinceReset.opened = TRUE]
  /\ UNCHANGED <<browserVars, last, serverVars>>

\* websocket.onclose (after onerror when the connection failed): the
\* connection failed, the peer closed it, or the close() of the script
\* completed.  A socket that never opened closes abnormally.
OnClose(socket, code) ==
  LET was == background.created[socket]
      closed == [background EXCEPT
                   !.created[socket].readyState = "CLOSED",
                   !.created[socket].closedBy =
                     IF @ = "none" THEN "peer" ELSE @]
  IN  /\ was.readyState \in {"CONNECTING", "OPEN", "CLOSING"}
      /\ ~was.opened => code = 1006
      /\ background' =
           IF code # 1000 /\ MayRetry(background.connectionAttempts)
           THEN setTimeout(closed, was.url, socket)
           ELSE closed
      /\ UNCHANGED <<browserVars, last, serverVars>>

\* A reconnect timer fires.
TimerFires(timer) ==
  LET fired == [background EXCEPT !.timers = @ (-) SetToBag({timer})]
  IN  /\ BagIn(timer, background.timers)
      /\ MayConnect(fired, timer.serverUrl)
      /\ background' = connectWebSocket(fired, timer.serverUrl)
      /\ UNCHANGED <<browserVars, last, serverVars>>

----------------------------------------------------------------------------
(* State after construction: the content scripts have loaded, the          *)
(* inspector exists (idle) and owns one analyzer with an empty cache.      *)

\* The latest call on the analyzer as a call-count instrumentation sees it:
\* what was called with what, what came of it, and whether the call before
\* it was the same call.
Call(op, arg, outcome) ==
  [op |-> op, arg |-> arg, outcome |-> outcome,
   repeated |-> last.op = op /\ last.arg = arg]

NoCall ==
  [op |-> "none", arg |-> <<>>, outcome |-> Outcome(<<>>, FALSE, 0, 0),
   repeated |-> FALSE]

DocumentListeners == {"mousemove", "mouseover", "click", "keydown"}

InitOn(pages) ==
  /\ dom \in {p \o InspectorNodes : p \in pages}
  /\ relationshipCache = [n \in Elements(dom) |-> NotCached]
  /\ last = NoCall
  /\ inspector =
       [active |-> FALSE, hoveredElement |-> NoNode, listeners |-> {},
        cursor |-> "", highlightDisplay |-> "none", tooltipDisplay |-> "none"]
  /\ outbox = <<>>
  /\ ServerStarted
  /\ BackgroundStarted

CachedElements == {n \in Elements(dom) : relationshipCache[n].cached}

\* The runs of the model fill at most MaxCacheEntries cache entries.
MayCache(n) ==
  relationshipCache[n].cached \/ Cardinality(CachedElements) < MaxCacheEntries

----------------------------------------------------------------------------
(* Direct calls on the inspector's analyzer (window.elementInspector       *)
(* .analyzer), as a test or another script makes them.                     *)

CalculateSimilarity(el1, el2) ==
  /\ last' = Call("calculateSimilarity", <<el1, el2>>,
                  Outcome(calculateSimilarity(dom, el1, el2), FALSE, 0, 0))
  /\ UNCHANGED <<dom, relationshipCache, inspector, outbox, serverVars, background>>

AnalyzeStructure(element) ==
  /\ last' = Call("analyzeStructure", <<element>>,
                  Outcome(analyzeStructure(dom, element), FALSE, 0, 0))
  /\ UNCHANGED <<dom, relationshipCache, inspector, outbox, serverVars, background>>

FindRelationships(element) ==
  /\ MayCache(element)
  /\ LET r == findRelationships(dom, relationshipCache, element)
     IN  /\ relationshipCache' = r.cache
         /\ last' = Call("findRelationships", <<element>>, r.outcome)
  /\ UNCHANGED <<dom, inspector, outbox, serverVars, background>>

\* analyzeElement that marks the element it analysed with a class.
AnalyzeElementMarkingTarget(x, fault) ==
  /\ InstanceOfHTMLElement(x) => MayCache(x.node)
  /\ LET r == analyzeElement(dom, relationshipCache, x, fault)
     IN  /\ relationshipCache' = r.cache
         /\ last' = Call("analyzeElement", <<x, fault>>, r.outcome)
  /\ dom' = IF InstanceOfHTMLElement(x)
            THEN [dom EXCEPT ![x.node].className = Append(@, "analyzed")]
            ELSE dom
  /\ UNCHANGED <<inspector, outbox, serverVars, background>>

AnalyzeElement(x, fault) ==
  /\ InstanceOfHTMLElement(x) => MayCache(x.node)
  /\ LET r == analyzeElement(dom, relationshipCache, x, fault)
     IN  /\ relationshipCache' = r.cache
         /\ last' = Call("analyzeElement", <<x, fault>>, r.outcome)
  /\ UNCHANGED <<dom, inspector, outbox, serverVars, background>>

Inputs == {ElementInput(n) : n \in PageElements(dom)} \cup InvalidInputs

IsLikelyContainer(element) ==
  /\ last' = Call("isLikelyContainer", <<element>>,
                  Outcome(isLikelyContainer(dom, element), FALSE, 0, 0))
  /\ UNCHANGED <<dom, relationshipCache, inspector, outbox, serverVars, background>>

\* The array findRelationships returns is the array it stored in the cache
\* (and the one analyzeElement puts in its report): whoever received it from
\* the latest call holds a reference to the cache entry.
HoldsReturnedArray(element) ==
  /\ relationshipCache[element].cached
  /\ \/ last.op = "findRelationships" /\ last.arg = <<element>>
     \/ last.op = "analyzeElement" /\ last.arg = <<ElementInput(element), "none">>

\* The caller edits the relationships of the report it received:
\* relationships.length = 0, or relationships.push(element).
ModifyReturnedRelationships(element, edit) ==
  /\ HoldsReturnedArray(element)
  /\ LET held == relationshipCache[element].value
         edited == IF edit = "clear" THEN <<>> ELSE Append(held, element)
     IN  /\ IF edit = "clear" THEN held # <<>> ELSE element \notin Range(held)
         /\ relationshipCache' =
              [relationshipCache EXCEPT ![element] = Cached(edited)]
         /\ last' = Call("modifyRelationships", <<element, edit>>,
                         Outcome(edited, FALSE, 0, 0))
  /\ UNCHANGED <<dom, inspector, outbox, serverVars, background>>

\* The page changes its document between two calls of the analyzer:
\* element.remove() detaches an element (with its subtree) ...
RemoveElement(element) ==
  /\ dom[element].parent # NoNode
  /\ dom' = [dom EXCEPT ![element].parent = NoNode]
  /\ UNCHANGED <<relationshipCache, last, inspector, outbox, serverVars, background>>

\* ... and element.className = className replaces its classes.
SetClassName(element, className) ==
  /\ dom[element].className # className
  /\ dom' = [dom EXCEPT ![element].className = className]
  /\ UNCHANGED <<relationshipCache, last, inspector, outbox, serverVars, background>>

GenerateSelectors(element) ==
  /\ last' = Call("generateSelectors", <<element>>,
                  Outcome(generateSelectors(dom, element), FALSE, 0, 0))
  /\ UNCHANGED <<dom, relationshipCache, inspector, outbox, serverVars, background>>

\* window.elementInspector.getElementInfo(element)
GetElementInfo(element) ==
  /\ last' = Call("getElementInfo", <<element>>,
                  Outcome(getElementInfo(dom, element), FALSE, 0, 0))
  /\ UNCHANGED <<dom, relationshipCache, inspector, outbox, serverVars, background>>

----------------------------------------------------------------------------
(* ElementInspector: the inspection session.  An event reaches a handler   *)
(* only while the handler is attached to the document; the targets are     *)
(* page elements (the inspector's own overlays take no pointer events).    *)

\* stop(): the fields it resets.  (relatedOverlays is always empty: no code
\* adds to it.)  The analyzer and hoveredElement are left as they are.
\* A stop() that leaves the document listeners attached.
StoppedKeepingListeners(i) ==
  [i EXCEPT !.active = FALSE, !.cursor = "default",
            !.highlightDisplay = "none", !.tooltipDisplay = "none"]

Stopped(i) ==
  [i EXCEPT !.active = FALSE, !.cursor = "default",
            !.highlightDisplay = "none", !.tooltipDisplay = "none",
            !.listeners = @ \ DocumentListeners]

\* start(): addEventListener ignores a listener that is already attached.
Start ==
  /\ inspector' = [inspector EXCEPT !.active = TRUE, !.cursor = "crosshair",
                                    !.listeners = @ \cup DocumentListeners]
  /\ UNCHANGED <<dom, relationshipCache, last, outbox, serverVars, background>>

Stop ==
  /\ inspector' = Stopped(inspector)
  /\ UNCHANGED <<dom, relationshipCache, last, outbox, serverVars, background>>

\* The elementSelected message handleClick sends.
ElementSelected(d, element, analysis) ==
  LET info == getElementInfo(d, element)
  IN  [action |-> "elementSelected",
       elementInfo |->
         [element |-> element, tagName |-> info.tagName, id |-> info.id,
          className |-> info.className, xpath |-> info.xpath,
          cssSelector |-> info.cssSelector, analysis |-> analysis]]

\* handleClick: analyse the target, send it, stop.  A fault of
\* getElementInfo is caught and logged: nothing is sent, stop() still runs.
HandleClick(target, fault, infoFault) ==
  /\ "click" \in inspector.listeners
  /\ MayCache(target)
  /\ Len(outbox) < MaxOutbox
  /\ IF ~inspector.active
     THEN UNCHANGED <<relationshipCache, last, inspector, outbox>>
     ELSE LET r == analyzeElement(dom, relationshipCache, ElementInput(target), fault)
          IN  /\ relationshipCache' = r.cache
              /\ last' = Call("analyzeElement", <<ElementInput(target), fault>>,
                              r.outcome)
              /\ outbox' = IF infoFault THEN outbox
                           ELSE Append(outbox,
                                       ElementSelected(dom, target, r.outcome.value))
              /\ inspector' = Stopped(inspector)
  /\ UNCHANGED <<dom, serverVars, background>>

HandleKeyPress(key) ==
  /\ "keydown" \in inspector.listeners
  /\ inspector' = IF inspector.active /\ key = "Escape"
                  THEN Stopped(inspector) ELSE inspector
  /\ UNCHANGED <<dom, relationshipCache, last, outbox, serverVars, background>>

\* updateTooltip's effect on the inspector: the tooltip is shown, unless
\* getElementInfo faults and leaves it as it was.
TooltipUpdated(i, infoFault) ==
  IF infoFault THEN i ELSE [i EXCEPT !.tooltipDisplay = "block"]

\* handleMouseMove: updateTooltip(hoveredElement || target), which analyses
\* the element and then shows the tooltip.
HandleMouseMove(target, fault, infoFault) ==
  /\ "mousemove" \in inspector.listeners
  /\ LET element == IF inspector.hoveredElement # NoNode
                    THEN inspector.hoveredElement ELSE target
     IN  /\ MayCache(element)
         /\ IF ~inspector.active
            THEN UNCHANGED <<relationshipCache, last, inspector>>
            ELSE LET r == analyzeElement(dom, relationshipCache,
                                         ElementInput(element), fault)
                 IN  /\ relationshipCache' = r.cache
                     /\ last' = Call("analyzeElement",
                                     <<ElementInput(element), fault>>, r.outcome)
                     /\ inspector' = TooltipUpdated(inspector, infoFault)
  /\ UNCHANGED <<dom, outbox, serverVars, background>>

\* handleMouseOver: remember the target, analyse it, show the highlight,
\* then updateTooltip (which analyses it again, against the cache the first
\* analysis left).
HandleMouseOver(target, fault, tooltipFault, infoFault) ==
  /\ "mouseover" \in inspector.listeners
  /\ MayCache(target)
  /\ IF ~inspector.active
     THEN UNCHANGED <<relationshipCache, last, inspector>>
     ELSE LET first == analyzeElement(dom, relationshipCache,
                                      ElementInput(target), fault).cache
              r == analyzeElement(dom, first, ElementInput(target), tooltipFault)
          IN  /\ relationshipCache' = r.cache
              /\ last' = Call("analyzeElement",
                              <<ElementInput(target), tooltipFault>>, r.outcome)
              /\ inspector' =
                   TooltipUpdated([inspector EXCEPT !.hoveredElement = target,
                                                    !.highlightDisplay = "block"],
                                  infoFault)
  /\ UNCHANGED <<dom, outbox, serverVars, background>>

\* The background script takes the message.
Deliver ==
  /\ outbox # <<>>
  /\ outbox' = Tail(outbox)
  /\ UNCHANGED <<dom, relationshipCache, last, inspector, serverVars, background>>

----------------------------------------------------------------------------
(* server.js: the steps of the server.  An await suspends a handler; the   *)
(* database answers in a later step.                                       *)

\* initializeDatabase(): open() and CREATE TABLE IF NOT EXISTS succeeded.
DatabaseOpens ==
  /\ db.state = "opening"
  /\ db' = [db EXCEPT !.state = "open"]
  /\ UNCHANGED <<browserVars, background, last, clock, sockets, handlers, received>>

\* initializeDatabase() rejected: .catch(console.error), `db` stays undefined.
DatabaseFails ==
  /\ db.state = "opening"
  /\ db' = [db EXCEPT !.state = "failed"]
  /\ UNCHANGED <<browserVars, background, last, clock, sockets, handlers, received>>

Tick ==
  /\ clock < MaxClock
  /\ clock' = clock + 1
  /\ UNCHANGED <<browserVars, background, last, db, sockets, handlers, received>>

\* wss.on('connection'): clients.add(ws), then await getRecentElements().
Connect(c) ==
  /\ sockets[c].readyState = "CONNECTING"
  /\ sockets' = [sockets EXCEPT ![c].readyState = "OPEN", ![c].fetching = TRUE]
  /\ UNCHANGED <<browserVars, background, last, db, clock, handlers, received>>

\* the await returned: ws.send(initialHistory), then ws.on('message') and
\* ws.on('close') are attached.  ws.send on a closed socket throws into the
\* catch around it.
SendInitialHistory(c) ==
  /\ sockets[c].fetching
  /\ \E recentElements \in getRecentElements(db, DefaultLimit) :
       sockets' = [sockets EXCEPT
         ![c].fetching = FALSE,
         ![c].listening = TRUE,
         ![c].inbox = IF sockets[c].readyState = "OPEN"
                      THEN Append(@, Message("initialHistory", recentElements, 0))
                      ELSE @]
  /\ UNCHANGED <<browserVars, background, last, db, clock, handlers, received>>

\* An elementSelected message of client c reaches the server.  With no
\* 'message' listener attached the event has no effect.  With one, the
\* handler runs to its first await: saveElement has called db.run, or has
\* caught the TypeError of an undefined db.
ReceiveElementSelected(c, payload) ==
  /\ sockets[c].readyState = "OPEN"
  /\ payload \notin received
  /\ received' = received \cup {payload}
  /\ handlers' =
       IF sockets[c].listening
       THEN handlers \cup {[data |-> payload,
                            pc |-> IF db.state = "open" THEN "saveElement"
                                   ELSE "getRecentElements"]}
       ELSE handlers
  /\ UNCHANGED <<browserVars, background, last, db, clock, sockets>>

\* The INSERT ran: await saveElement(...) returns, getRecentElements() is
\* called.
ElementSaved(h) ==
  /\ h \in handlers
  /\ h.pc = "saveElement"
  /\ db' = saveElement(db, h.data, clock)
  /\ handlers' = (handlers \ {h}) \cup {[h EXCEPT !.pc = "getRecentElements"]}
  /\ UNCHANGED <<browserVars, background, last, clock, sockets, received>>

\* The SELECT ran: await getRecentElements() returns and the handler
\* broadcasts historyUpdate.
BroadcastHistory(h) ==
  /\ h \in handlers
  /\ h.pc = "getRecentElements"
  /\ \E recentElements \in getRecentElements(db, DefaultLimit) :
       sockets' = Broadcast(sockets, Message("historyUpdate", recentElements, h.data))
  /\ handlers' = handlers \ {h}
  /\ UNCHANGED <<browserVars, background, last, db, clock, received>>

\* The client went away: readyState is no longer OPEN.
Close(c) ==
  /\ sockets[c].readyState = "OPEN"
  /\ sockets' = [sockets EXCEPT ![c].readyState = "CLOSED"]
  /\ UNCHANGED <<browserVars, background, last, db, clock, handlers, received>>

\* GET /api/history?limit=N (limit 0 stands for a request without ?limit=)
GetHistory(limit) ==
  /\ \E elements \in getRecentElements(db, IF limit = 0 THEN DefaultLimit ELSE limit) :
       last' = Call("getRecentElements", <<limit>>, Outcome(elements, FALSE, 0, 0))
  /\ UNCHANGED <<browserVars, serverVars, background>>

----------------------------------------------------------------------------
(* Specifications.                                                         *)

\* The pure operations (similarity scorer, structure analyzer) on every
\* page of the model.
ScorerInit == InitOn(Pages)

ScorerNext ==
  \/ \E el1, el2 \in PageElements(dom) : CalculateSimilarity(el1, el2)
  \/ \E element \in PageElements(dom) : AnalyzeStructure(element)
  \/ \E element \in PageElements(dom) : IsLikelyContainer(element)
  \/ \E element \in PageElements(dom) : GenerateSelectors(element)
  \/ \E element \in PageElements(dom) : GetElementInfo(element)

SpecScorer == ScorerInit /\ [][ScorerNext]_vars

\* The operations that use the relationship cache, on the scenario pages
\* and the small generic pages.
SmallPages == {p \in GenericPages : Len(p) <= 2}

Init == InitOn(SmallPages \cup ListPages \cup FormPages \cup TablePages)

Next ==
  \/ \E element \in PageElements(dom) : FindRelationships(element)
  \/ \E x \in Inputs, fault \in Faults : AnalyzeElement(x, fault)

Spec == Init /\ [][Next]_vars

\* A caller that analyses elements and edits the reports it gets back.
CallerInit == InitOn(SmallPages \cup ListPages)

CallerNext ==
  \/ \E element \in PageElements(dom) : FindRelationships(element)
  \/ \E element \in PageElements(dom) : AnalyzeElement(ElementInput(element), "none")
  \/ \E element \in PageElements(dom), edit \in {"clear", "push"} :
       ModifyReturnedRelationships(element, edit)

SpecCaller == CallerInit /\ [][CallerNext]_vars

\* The server with its clients, on a page that plays no part.
ServerInit == InitOn({<<>>})

ServerNext ==
  \/ DatabaseOpens
  \/ DatabaseFails
  \/ Tick
  \/ \E c \in Clients : Connect(c)
  \/ \E c \in Clients : SendInitialHistory(c)
  \/ \E c \in Clients, payload \in Payloads : ReceiveElementSelected(c, payload)
  \/ \E h \in handlers : ElementSaved(h)
  \/ \E h \in handlers : BroadcastHistory(h)
  \/ \E c \in Clients : Close(c)
  \/ \E limit \in 0..MaxLimit : GetHistory(limit)

SpecServer == ServerInit /\ [][ServerNext]_vars

\* The inspection session on the small pages: the analyzer is reached
\* through the inspector's event handlers only.
SessionFaults == {"none", "patterns"}

SessionInit == InitOn(SmallPages)

SessionNext ==
  \/ Start
  \/ Stop
  \/ \E target \in PageElements(dom), fault \in SessionFaults, infoFault \in BOOLEAN :
       HandleClick(target, fault, infoFault)
  \/ \E key \in {"Escape", "Enter"} : HandleKeyPress(key)
  \/ \E target \in PageElements(dom), fault \in SessionFaults, infoFault \in BOOLEAN :
       HandleMouseMove(target, fault, infoFault)
  \/ \E target \in PageElements(dom), fault \in SessionFaults,
        tooltipFault \in SessionFaults, infoFault \in BOOLEAN :
       HandleMouseOver(target, fault, tooltipFault, infoFault)
  \/ Deliver

SpecSession == SessionInit /\ [][SessionNext]_vars

\* The analyzer on a page that changes: elements are removed and change
\* their classes between the calls.
ChangingInit == InitOn(SmallPages)

ChangingNext ==
  \/ \E element \in PageElements(dom) : FindRelationships(element)
  \/ \E element \in PageElements(dom) : AnalyzeStructure(element)
  \/ \E element \in PageElements(dom) : AnalyzeElement(ElementInput(element), "none")
  \/ \E element \in PageElements(dom) : RemoveElement(element)
  \/ \E element \in PageElements(dom), className \in GenericClassNames :
       SetClassName(element, className)

SpecChanging == ChangingInit /\ [][ChangingNext]_vars

\* The background script with the popup, the browser and the network.
BackgroundInit == InitOn({<<>>})

BackgroundNext ==
  \/ \E serverUrl \in ServerUrls : EstablishConnection(serverUrl)
  \/ \E serverUrl \in ServerUrls \cup {""} : OnStartup(serverUrl)
  \/ \E serverUrl \in ServerUrls \cup {""} : OnInstalled(serverUrl)
  \/ \E socket \in 1..Len(background.created) : OnOpen(socket)
  \/ \E socket \in 1..Len(background.created), code \in CloseCodes :
       OnClose(socket, code)
  \/ \E timer \in BagToSet(background.timers) : TimerFires(timer)

SpecBackground == BackgroundInit /\ [][BackgroundNext]_vars

----------------------------------------------------------------------------
(* Claims.                                                                 *)

One == Number(1)

ScoredPair == last.op = "calculateSimilarity"

\* C1: for every element E (elements without classes included),
\* calculateSimilarity(E, E) returns exactly 1.0.
C1_SelfSimilarityIsOne ==
  (ScoredPair /\ last.arg[1] = last.arg[2]) => last.outcome.value = One

\* C2: calculateSimilarity(a, b) is a number in [0,1] for every a, b; when
\* both class sets are empty the class term contributes 0, so the result is
\* (tagTerm + 0 + signatureTerm) / 3.
C2_SimilarityIsNumberInUnitInterval ==
  ScoredPair =>
    LET a == last.arg[1]
        b == last.arg[2]
        x == last.outcome.value
        tagTerm == IF dom[a].tag = dom[b].tag THEN 1 ELSE 0
        signatureTerm ==
          IF generateStructureSignature(dom, a) = generateStructureSignature(dom, b)
          THEN 1 ELSE 0
    IN  /\ ~x.nan
        /\ 0 <= x.num /\ x.num <= x.den
        /\ (ClassList(dom, a) = {} /\ ClassList(dom, b) = {})
             => x = Fraction(tagTerm + signatureTerm, 3)

IsListPage(d) == \E n \in Elements(d) : d[n].tag = "ul"
IsFormPage(d) == \E n \in Elements(d) : d[n].tag = "input"
IsTablePage(d) == \E n \in Elements(d) : d[n].tag = "tr"

\* The element whose relationships the last call returned (NoNode if the
\* last call returned none), and those relationships.
Subject ==
  IF last.op = "findRelationships" THEN last.arg[1]
  ELSE IF /\ last.op = "analyzeElement"
          /\ InstanceOfHTMLElement(last.arg[1])
          /\ last.arg[2] = "none"
       THEN last.arg[1].node
       ELSE NoNode

Relationships ==
  IF last.op = "findRelationships" THEN last.outcome.value
  ELSE last.outcome.value.relationships

\* C3: analyzeElement on the third <li> of a <ul> of five <li class="item">,
\* wherever the <ul> sits, reports 5 siblings, 4 similar siblings,
\* isRepeating, and relationships that include the other four <li>.
C3_ListScenario ==
  (/\ IsListPage(dom)
   /\ last.op = "analyzeElement"
   /\ last.arg = <<ElementInput(ItemsOf(dom)[3]), "none">>)
    => LET report == last.outcome.value
       IN  /\ report.structure.siblings = NumItems
           /\ report.structure.similarSiblings = NumItems - 1
           /\ report.structure.isRepeating
           /\ Range(ItemsOf(dom)) \ {ItemsOf(dom)[3]}
                \subseteq Range(report.relationships)

\* C4: in every Structure Report, isRepeating is true iff the
\* similar-sibling count is > 0, and the pattern-group signature is non-null
\* only if isRepeating.
C4_IsRepeatingIffSimilarSiblings ==
  last.op = "analyzeStructure" =>
    LET structure == last.outcome.value
    IN  /\ structure.isRepeating <=> structure.similarSiblings > 0
        /\ structure.patternGroup # Null => structure.isRepeating

C4_Witness ==
  /\ last.op = "analyzeStructure"
  /\ last.outcome.value.isRepeating
  /\ last.outcome.value.patternGroup # Null

\* C5: of two consecutive findRelationships calls for the same element, the
\* second returns the sequence the first returned and does no container
\* search and no similarity computation.
C5_SecondCallAnsweredFromCache ==
  [][(/\ last.op = "findRelationships"
      /\ last'.op = "findRelationships"
      /\ last'.arg = last.arg)
       => /\ last'.outcome.value = last.outcome.value
          /\ last'.outcome.containerSearches = 0
          /\ last'.outcome.similarityCalls = 0]_vars

C5_Witness ==
  /\ last.op = "findRelationships"
  /\ last.repeated
  /\ last.outcome.containerSearches = 0
  /\ relationshipCache[last.arg[1]].cached
  /\ last.outcome.value # <<>>

\* C6: whenever an inspection session ends, the relationship cache is
\* cleared.
C6_CacheClearedAtSessionEnd ==
  [][(inspector.active /\ ~inspector'.active) => CachedElements' = {}]_vars

\* C7: analyzeElement called with null, undefined or any other value that
\* is not an HTMLElement of the page returns exactly the empty report and
\* does not throw.
C7_InvalidInputGivesEmptyReport ==
  (last.op = "analyzeElement" /\ ~InstanceOfHTMLElement(last.arg[1]))
    => last.outcome.value = EmptyReport /\ ~last.outcome.threw

C7_Witness ==
  /\ last.op = "analyzeElement"
  /\ last.arg[1].kind = "Text"
  /\ last.outcome.value = EmptyReport

\* C8: if any sub-analysis faults during analyzeElement, the facade returns
\* the empty report and does not throw, whichever sub-analysis failed.
C8_FaultGivesEmptyReport ==
  (last.op = "analyzeElement" /\ last.arg[2] # "none")
    => last.outcome.value = EmptyReport /\ ~last.outcome.threw

\* The selectors fault came after the relationships had been computed and
\* cached.
C8_Witness ==
  /\ last.op = "analyzeElement"
  /\ InstanceOfHTMLElement(last.arg[1])
  /\ last.arg[2] = "selectors"
  /\ last.outcome.containerSearches = 1
  /\ relationshipCache[last.arg[1].node].cached
  /\ last.outcome.value = EmptyReport

\* C9: for an <input> with an id and a <label> whose for attribute equals
\* that id, wherever the label is placed, the relationships of the input
\* contain the label.
C9_LabelOfInputIsRelated ==
  (IsFormPage(dom) /\ Subject = InputOf(dom))
    => LabelOf(dom) \in Range(Relationships)

\* C10: for a table row of three <td> cells, with or without classes, the
\* relationships of one <td> contain the other two cells of the row and no
\* other element.
C10_CellsOfRowAreRelated ==
  (IsTablePage(dom) /\ Subject # NoNode /\ dom[Subject].tag = "td")
    => Range(Relationships) = Range(Cells(dom, RowOf(dom))) \ {Subject}

\* A cell with a class whose row is its container: the other cells are
\* found twice, as similar children and as cells of the row.
C10_Witness ==
  /\ IsTablePage(dom) /\ Subject # NoNode /\ dom[Subject].tag = "td"
  /\ dom[Subject].className # <<>>
  /\ Len(Relationships) = 2 * (NumCells - 1)


\* C11: resolving the XPath generateXPath produced (the analyzer's and the
\* inspector's) against the unchanged document selects exactly the original
\* element; each positional segment is tag[k] with k = 1 + the number of
\* preceding element siblings with the same tag name.
PrecedingSameTag(d, n) ==
  Cardinality({m \in Elements(d) :
                 m < n /\ d[m].parent = d[n].parent /\ d[m].tag = d[n].tag})

C11_XPathRoundTrip ==
  last.op \in {"generateSelectors", "getElementInfo"} =>
    LET element == last.arg[1]
        xpath == last.outcome.value.xpath
        own == xpath[Len(xpath)]
    IN  /\ ResolveXPath(dom, xpath) = {element}
        /\ own.kind = "tag[]" =>
             /\ own.tokens = <<dom[element].tag>>
             /\ own.index = 1 + PrecedingSameTag(dom, element)

\* An element that follows a sibling of another tag, below a parent that
\* carries an id: the path is //*[@id="..."]/tag[1] and resolves to it.
C11_Witness ==
  /\ last.op = "generateSelectors"
  /\ LET element == last.arg[1]
         xpath == last.outcome.value.xpath
     IN  /\ Len(xpath) = 2
         /\ xpath[1].kind = "//*[@id]"
         /\ xpath[2].index = 1
         /\ \E m \in Elements(dom) :
              /\ m < element
              /\ dom[m].parent = dom[element].parent
              /\ dom[m].tag # dom[element].tag
         /\ ResolveXPath(dom, xpath) = {element}


\* C12: for an element that has a unique, non-empty id, generateCssSelector
\* returns exactly "#<id>" (no tag name, no ancestor segments), in the
\* Analysis Report's selectors and in the cssSelector of the elementSelected
\* payload (the one getElementInfo computes).
C12_IdSelectorIsHashId ==
  (/\ last.op \in {"generateSelectors", "getElementInfo"}
   /\ dom[last.arg[1]].id # "")
    => LET id == dom[last.arg[1]].id
       IN  IF last.op = "generateSelectors"
           THEN last.outcome.value.css = <<Segment("#", <<id>>, 0)>>
           ELSE last.outcome.value.cssSelector = <<Compound("", id, <<>>, "")>>


\* C13: similarity is symmetric for every pair of elements A, B (pairs
\* without any class included): calculateSimilarity(A, B) and
\* calculateSimilarity(B, A) are numbers that differ by less than 1e-9.
C13_SimilarityIsSymmetric ==
  ScoredPair =>
    LET ab == last.outcome.value
        ba == calculateSimilarity(dom, last.arg[2], last.arg[1])
    IN  /\ ~ab.nan
        /\ ~ba.nan
        /\ ab = ba


\* C14: isLikelyContainer returns true for every element that has at least
\* two children of which some two (any two, the first child need not be one
\* of them) share both tag name and full class string, whatever its tag,
\* role, class names and display.
C14_TwoAlikeChildrenMakeContainer ==
  (/\ last.op = "isLikelyContainer"
   /\ LET children == Children(dom, last.arg[1])
      IN  \E i, j \in 1..Len(children) :
            /\ i # j
            /\ dom[children[i]].tag = dom[children[j]].tag
            /\ dom[children[i]].className = dom[children[j]].className)
    => last.outcome.value = TRUE


\* C15: no operation of the analysis engine (analyzeElement and the
\* sub-analyses it calls) adds, removes, moves or changes a DOM node or an
\* attribute: the document is the same before and after every call.
C15_AnalysisLeavesDomUnchanged == [][dom' = dom]_vars

\* A second analyzeElement call in a row that produced a full report.
C15_Witness ==
  /\ last.op = "analyzeElement"
  /\ last.repeated
  /\ last.outcome.value # EmptyReport
  /\ last.outcome.value.relationships # <<>>


\* C16: each Analysis Report is independent of every other report: after a
\* caller modified the relationships of a report it received, a later
\* analyzeElement call for the same element still returns the relationships
\* of the (unchanged) document.
C16_LaterReportIndependentOfEarlier ==
  (/\ last.op = "analyzeElement"
   /\ last.arg[2] = "none"
   /\ InstanceOfHTMLElement(last.arg[1]))
    => last.outcome.value.relationships
         = computeRelationships(dom, last.arg[1].node)


\* C17: during an inspection session analyzeElement is invoked only in
\* response to a mouseover event and a click event: every step in which the
\* analyzer was called is a step of handleMouseOver or of handleClick.
C17_AnalysisOnlyOnMouseOverAndClick ==
  [][last' # last =>
       \/ \E target \in PageElements(dom), fault \in SessionFaults,
             infoFault \in BOOLEAN :
            HandleClick(target, fault, infoFault)
       \/ \E target \in PageElements(dom), fault \in SessionFaults,
             tooltipFault \in SessionFaults, infoFault \in BOOLEAN :
            HandleMouseOver(target, fault, tooltipFault, infoFault)]_vars


\* The rows holding a payload.
RowsOf(payload) == {i \in 1..Len(db.rows) : db.rows[i].data = payload}

\* C18: after any sequence of stores, getRecentElements(N) / GET
\* /api/history?limit=N (N >= 1, 10 without a limit) returns the min(N,
\* number of rows) most recently stored elements, newest first by order of
\* storage, also when several were stored within one timestamp second.
C18_HistoryIsNewestFirst ==
  [][(/\ last' # last
      /\ last'.op = "getRecentElements"
      /\ db.state = "open")
       => LET limit == last'.arg[1]
              N == IF limit = 0 THEN DefaultLimit ELSE limit
              k == Min(N, Len(db.rows))
          IN  last'.outcome.value =
                [i \in 1..k |-> db.rows[Len(db.rows) + 1 - i]]]_vars

\* C19: every elementSelected payload the server received from a connected
\* client is stored as exactly one row (once its INSERT is no longer
\* pending), whenever it arrived after the connection was accepted.
C19_EveryReceivedPayloadIsStored ==
  \A payload \in received :
    \/ \E h \in handlers : h.data = payload /\ h.pc = "saveElement"
    \/ Cardinality(RowsOf(payload)) = 1

\* C20: a historyUpdate broadcast is sent only for an element that was
\* actually stored, and carries the refreshed recent-history list with that
\* element.
C20_BroadcastOnlyForStoredElement ==
  \A c \in Clients : \A i \in 1..Len(sockets[c].inbox) :
    LET message == sockets[c].inbox[i]
    IN  message.type = "historyUpdate" =>
          /\ RowsOf(message.cause) # {}
          /\ \E j \in 1..Len(message.data) : message.data[j].data = message.cause

\* C21: connectionAttempts stays within 0..MAX_RETRY_ATTEMPTS; while no
\* connection has opened since establishConnection last reset the counter,
\* at most MAX_RETRY_ATTEMPTS attempts have been made since that reset, and
\* once that many have been made no step schedules another reconnect.
C21_ReconnectLoopIsBounded ==
  /\ [](/\ background.connectionAttempts \in 0..MAX_RETRY_ATTEMPTS
        /\ ~background.sinceReset.opened =>
             background.sinceReset.attempts <= MAX_RETRY_ATTEMPTS)
  /\ [][(/\ ~background'.sinceReset.opened
         /\ background'.sinceReset.attempts = MAX_RETRY_ATTEMPTS)
          => background'.timers \sqsubseteq background.timers]_vars

\* Five attempts were made and none opened: every socket has closed and no
\* reconnect is pending.
C21_Witness ==
  /\ ~background.sinceReset.opened
  /\ background.sinceReset.attempts = MAX_RETRY_ATTEMPTS
  /\ background.created # <<>>
  /\ \A socket \in 1..Len(background.created) :
       background.created[socket].readyState = "CLOSED"
  /\ background.timers = EmptyBag

\* The connection the script holds in `websocket` is open.
ActiveConnectionOpen ==
  /\ background.websocket # 0
  /\ background.created[background.websocket].readyState = "OPEN"

\* C25: an open active connection is never closed or replaced by a
\* reconnect that was scheduled by the close of a socket the script itself
\* had replaced earlier.
C25_ReplacedSocketNeverTakesOverOpenConnection ==
  [][\A timer \in BagToSet(background.timers) :
       (/\ TimerFires(timer)
        /\ timer.origin # 0
        /\ background.created[timer.origin].closedBy = "extension"
        /\ ActiveConnectionOpen)
       => /\ background'.websocket = background.websocket
          /\ background'.created[background.websocket].readyState = "OPEN"]_vars

\* The nearest container among a node and its ancestors below the body.
RECURSIVE NearestContainer(_, _)
NearestContainer(d, node) ==
  IF node = NoNode \/ node = Body THEN NoNode
  ELSE IF isLikelyContainer(d, node) THEN node
  ELSE NearestContainer(d, ParentElement(d, node))

\* C22: the containerId of a Structure Report is the signature of the
\* nearest ancestor below the body that is a container, or null if there is
\* none.
C22_ContainerIdIsNearestContainer ==
  last.op = "analyzeStructure" =>
    LET container ==
          NearestContainer(dom, ParentElement(dom, last.arg[1]))
    IN  last.outcome.value.containerId =
          IF container = NoNode THEN Null
          ELSE getContainerSignature(dom, container)

\* The number of children of n with the given tag.
ChildTagCount(d, n, tag) ==
  Len(SelectSeq(Children(d, n), LAMBDA c : TagName(d, c) = tag))

SameChildTags(d, el1, el2) ==
  \A tag \in {TagName(d, n) : n \in Elements(d)} :
    ChildTagCount(d, el1, tag) = ChildTagCount(d, el2, tag)

\* C23: two elements with the same tag, the same class list and the same
\* multiset of child tags have the same structure signature whatever the
\* order of their children, so every term of their similarity that is
\* defined is 1.
C23_SignatureIgnoresChildOrder ==
  (/\ ScoredPair
   /\ TagName(dom, last.arg[1]) = TagName(dom, last.arg[2])
   /\ ClassName(dom, last.arg[1]) = ClassName(dom, last.arg[2])
   /\ SameChildTags(dom, last.arg[1], last.arg[2]))
    => /\ generateStructureSignature(dom, last.arg[1])
            = generateStructureSignature(dom, last.arg[2])
       /\ ClassName(dom, last.arg[1]) # <<>> => last.outcome.value = One

\* The step is a call of the analyzer.
NewCall ==
  \/ last'.op # last.op
  \/ last'.op = last.op /\ last'.arg # last.arg
  \/ last'.repeated # last.repeated

\* C24: a findRelationships or analyzeElement call returns the
\* relationships derived from the document as it is at the time of the
\* call, whatever the document was at earlier calls for the element.
C24_RelationshipsFollowTheDocument ==
  [][/\ (NewCall /\ last'.op = "findRelationships")
          => last'.outcome.value = computeRelationships(dom', last'.arg[1])
     /\ (NewCall /\ last'.op = "analyzeElement")
          => last'.outcome.value.relationships
               = computeRelationships(dom', last'.arg[1].node)]_vars

\* The tags findSemanticRelationships treats specially.
SemanticTags == {"input", "td", "th", "li"}

\* C26: for a detached element that is not an input, table cell or list
\* item, a findRelationships call that computes its answer returns the
\* empty sequence, and analyzeStructure reports zero siblings.
C26_DetachedElementHasNoRelationships ==
  [][\A element \in PageElements(dom') :
       (/\ NewCall
        /\ last'.op \in {"findRelationships", "analyzeStructure"}
        /\ last'.arg = <<element>>
        /\ dom'[element].parent = NoNode
        /\ dom'[element].tag \notin SemanticTags)
       => /\ (last'.op = "findRelationships"
                /\ last'.outcome.containerSearches = 1)
               => last'.outcome.value = <<>>
          /\ last'.op = "analyzeStructure"
               => last'.outcome.value.siblings = 0]_vars

\* What the event handlers do: an analysis, a message to the background, a
\* new hovered element, an overlay shown.
HandlerEffect ==
  \/ NewCall
  \/ relationshipCache' # relationshipCache
  \/ Len(outbox') > Len(outbox)
  \/ inspector'.hoveredElement # inspector.hoveredElement
  \/ inspector'.highlightDisplay = "block" /\ inspector.highlightDisplay # "block"
  \/ inspector'.tooltipDisplay = "block" /\ inspector.tooltipDisplay # "block"

\* C27: the four document listeners are attached iff the inspector is
\* active, and no step taken while it is idle has the effect of a handler.
C27_ListenersAttachedIffActive ==
  /\ [](inspector.listeners =
          IF inspector.active THEN DocumentListeners ELSE {})
  /\ [][HandlerEffect => inspector.active]_vars

\* A click was handled and ended the session: the inspector is idle again
\* with its message handed over and no listener attached.
C27_Witness ==
  /\ ~inspector.active
  /\ inspector.listeners = {}
  /\ inspector.cursor = "default"
  /\ outbox # <<>>

\* C28: every click handled while the inspector is active hands exactly one
\* elementSelected message for the clicked element, with its Analysis
\* Report, to the background transport and leaves the session idle, also
\* when the analysis or the extraction of the element info faults.
C28_EveryClickSendsOneMessage ==
  [][\A target \in PageElements(dom), fault \in SessionFaults,
        infoFault \in BOOLEAN :
       (inspector.active /\ HandleClick(target, fault, infoFault))
       => /\ Len(outbox') = Len(outbox) + 1
          /\ outbox'[Len(outbox')].action = "elementSelected"
          /\ outbox'[Len(outbox')].elementInfo.element = target
          /\ outbox'[Len(outbox')].elementInfo.analysis = last'.outcome.value
          /\ ~inspector'.active]_vars


=============================================================================
